---- MODULE Spec2Model ----
(***************************************************************************)
(* CacheManager (src/cache_manager.py): a SQLite-backed cache of           *)
(* questions, raw search responses, web page bodies and answers.           *)
(*                                                                         *)
(* The store is one SQLite file in the default rollback-journal mode,      *)
(* reached through Python's sqlite3 module in its default (legacy)         *)
(* transaction control: the first INSERT of a connection opens a           *)
(* transaction and takes the store's single write lock, SELECTs run in     *)
(* autocommit and read committed data only, commit() publishes the         *)
(* transaction, rollback() or close() discard it.                          *)
(***************************************************************************)
EXTENDS Integers, Sequences, FiniteSets, TLC

(***************************************************************************)
(* Bounds of the model.                                                    *)
(***************************************************************************)
MaxCalls == 2      \* cache_qa_data calls started in one behaviour
MaxTime == 1       \* CURRENT_TIMESTAMP takes the values 0..MaxTime (seconds)

Procs == {"p1", "p2"}          \* concurrent callers of one CacheManager
Readers == {"p2"}              \* the callers that make lookups

(***************************************************************************)
(* Python values.  Column values and arguments are strings; PyNone stands  *)
(* for Python's None / SQL NULL and is no text of the model.               *)
(***************************************************************************)
PyNone == "<None>"

PyStr(s) == [t |-> "str", v |-> s]
PyInt(n) == [t |-> "int", v |-> n]
PyList(items) == [t |-> "list", v |-> items]
PyTuple(items) == [t |-> "tuple", v |-> items]
PySet(items) == [t |-> "set", v |-> items]
\* a dict is the sequence of its <<key, value>> pairs in insertion order
PyDict(pairs) == [t |-> "dict", v |-> pairs]

(***************************************************************************)
(* JSON text is a sequence of tokens.                                      *)
(***************************************************************************)
Punct(c) == [k |-> "punct", v |-> c]
StrTok(s) == [k |-> "string", v |-> s]

\* mutant: an encoder that writes every number as a string
NumTokQuoted(n) == [k |-> "string", v |-> ToString(n)]

NumTok(n) == [k |-> "number", v |-> ToString(n)]

RECURSIVE JoinComma(_)
JoinComma(seqs) ==
    IF seqs = <<>> THEN <<>>
    ELSE IF Len(seqs) = 1 THEN seqs[1]
    ELSE seqs[1] \o <<Punct(",")>> \o JoinComma(Tail(seqs))

\* json.dumps raises TypeError for a value it cannot encode
RECURSIVE Serializable(_)
Serializable(x) ==
    CASE x.t \in {"str", "int"} -> TRUE
      [] x.t \in {"list", "tuple"} -> \A i \in 1..Len(x.v) : Serializable(x.v[i])
      [] x.t = "dict" -> \A i \in 1..Len(x.v) :
                            /\ x.v[i][1].t \in {"str", "int"}
                            /\ Serializable(x.v[i][2])
      [] OTHER -> FALSE

\* json.dumps: tuples are written as arrays, int keys as strings
RECURSIVE Dumps(_)
Dumps(x) ==
    CASE x.t = "str" -> <<StrTok(x.v)>>
      [] x.t = "int" -> <<NumTok(x.v)>>
      [] x.t \in {"list", "tuple"} ->
            <<Punct("[")>> \o JoinComma([i \in 1..Len(x.v) |-> Dumps(x.v[i])])
                           \o <<Punct("]")>>
      [] x.t = "dict" ->
            <<Punct("{")>>
            \o JoinComma([i \in 1..Len(x.v) |->
                   <<StrTok(IF x.v[i][1].t = "int" THEN ToString(x.v[i][1].v)
                                                   ELSE x.v[i][1].v)>>
                   \o <<Punct(":")>> \o Dumps(x.v[i][2])])
            \o <<Punct("}")>>

\* the numbers a JSON text of the model can hold
Digits == 0..9
ParseInt(s) == CHOOSE n \in Digits : ToString(n) = s

TokAt(toks, i) == IF i \in 1..Len(toks) THEN toks[i] ELSE Punct("<eof>")

\* dict[key] = val: a repeated key keeps its place and takes the last value
DictSet(pairs, key, val) ==
    IF \E j \in 1..Len(pairs) : pairs[j][1] = key
    THEN [j \in 1..Len(pairs) |->
             IF pairs[j][1] = key THEN <<key, val>> ELSE pairs[j]]
    ELSE Append(pairs, <<key, val>>)

ParseFail == [ok |-> FALSE]
ParseOk(val, next) == [ok |-> TRUE, val |-> val, next |-> next]

\* json.loads, by recursive descent: arrays become lists, objects become
\* dicts with string keys
RECURSIVE ParseValue(_, _), ParseElems(_, _, _), ParseMembers(_, _, _)
ParseValue(toks, i) ==
    LET tok == TokAt(toks, i) IN
    CASE tok.k = "string" -> ParseOk(PyStr(tok.v), i + 1)
      [] tok.k = "number" -> ParseOk(PyInt(ParseInt(tok.v)), i + 1)
      [] tok = Punct("[") ->
            IF TokAt(toks, i + 1) = Punct("]") THEN ParseOk(PyList(<<>>), i + 2)
            ELSE ParseElems(toks, i + 1, <<>>)
      [] tok = Punct("{") ->
            IF TokAt(toks, i + 1) = Punct("}") THEN ParseOk(PyDict(<<>>), i + 2)
            ELSE ParseMembers(toks, i + 1, <<>>)
      [] OTHER -> ParseFail

ParseElems(toks, i, acc) ==
    LET r == ParseValue(toks, i) IN
    IF ~r.ok THEN ParseFail
    ELSE IF TokAt(toks, r.next) = Punct(",")
         THEN ParseElems(toks, r.next + 1, Append(acc, r.val))
    ELSE IF TokAt(toks, r.next) = Punct("]")
         THEN ParseOk(PyList(Append(acc, r.val)), r.next + 1)
    ELSE ParseFail

ParseMembers(toks, i, acc) ==
    IF TokAt(toks, i).k # "string" \/ TokAt(toks, i + 1) # Punct(":") THEN ParseFail
    ELSE LET r == ParseValue(toks, i + 2) IN
         IF ~r.ok THEN ParseFail
         ELSE LET acc2 == DictSet(acc, PyStr(TokAt(toks, i).v), r.val) IN
              IF TokAt(toks, r.next) = Punct(",")
              THEN ParseMembers(toks, r.next + 1, acc2)
              ELSE IF TokAt(toks, r.next) = Punct("}")
                   THEN ParseOk(PyDict(acc2), r.next + 1)
              ELSE ParseFail

\* json.loads raises JSONDecodeError unless the whole text is one value
Loads(text) ==
    LET r == ParseValue(text, 1) IN
    IF r.ok /\ r.next = Len(text) + 1 THEN r ELSE ParseFail

(***************************************************************************)
(* The store: the four tables of _initialize_db and the AUTOINCREMENT      *)
(* counters (sqlite_sequence), which every INSERT attempt advances, an     *)
(* ignored one included, and which a rollback restores.                    *)
(***************************************************************************)
EmptyDb ==
    [queries |-> {}, search_results |-> {}, web_contents |-> {}, answers |-> {},
     seq |-> [queries |-> 0, search_results |-> 0, web_contents |-> 0, answers |-> 0]]

\* mutant: a plain INSERT into a table without the UNIQUE constraint
InsertQueryAlways(d, question, now) ==
    LET id == d.seq.queries + 1 IN
    [d EXCEPT !.seq.queries = id,
              !.queries = @ \cup {[id |-> id, question |-> question, timestamp |-> now]}]

\* INSERT OR IGNORE INTO queries (question) VALUES (?): question is UNIQUE
InsertOrIgnoreQuery(d, question, now) ==
    LET id == d.seq.queries + 1
        bumped == [d EXCEPT !.seq.queries = id] IN
    IF \E r \in d.queries : r.question = question
    THEN bumped
    ELSE [bumped EXCEPT !.queries = @ \cup
             {[id |-> id, question |-> question, timestamp |-> now]}]

\* mutant: the id of the last INSERT (cursor.lastrowid) taken for the id of
\* the question's row
LastInsertedQueryId(d, question) == {d.seq.queries}

\* SELECT id FROM queries WHERE question = ?
SelectQueryId(d, question) ==
    {r.id : r \in {x \in d.queries : x.question = question}}

\* mutant: one search result per question, the new one in place of the old
ReplaceSearchResult(d, query_id, text) ==
    LET id == d.seq.search_results + 1 IN
    [d EXCEPT !.seq.search_results = id,
              !.search_results = {s \in @ : s.query_id # query_id} \cup
                  {[id |-> id, query_id |-> query_id, brave_response_json |-> text]}]

\* INSERT INTO search_results (query_id, brave_response_json) VALUES (?, ?)
InsertSearchResult(d, query_id, text) ==
    LET id == d.seq.search_results + 1 IN
    [d EXCEPT !.seq.search_results = id,
              !.search_results = @ \cup
                  {[id |-> id, query_id |-> query_id, brave_response_json |-> text]}]

\* mutant: INSERT OR REPLACE, the row of a known url is written again
InsertOrReplaceWebContent(d, url, content, now) ==
    LET id == d.seq.web_contents + 1 IN
    [d EXCEPT !.seq.web_contents = id,
              !.web_contents = {r \in @ : r.url # url} \cup
                  {[id |-> id, url |-> url, content |-> content, timestamp |-> now]}]

\* mutant: contents are stored only while the table is empty
InsertWebContentIfEmpty(d, url, content, now) ==
    LET id == d.seq.web_contents + 1
        bumped == [d EXCEPT !.seq.web_contents = id] IN
    IF d.web_contents # {}
    THEN bumped
    ELSE [bumped EXCEPT !.web_contents = @ \cup
             {[id |-> id, url |-> url, content |-> content, timestamp |-> now]}]

\* INSERT OR IGNORE INTO web_contents (url, content) VALUES (?, ?): url is UNIQUE
InsertOrIgnoreWebContent(d, url, content, now) ==
    LET id == d.seq.web_contents + 1
        bumped == [d EXCEPT !.seq.web_contents = id] IN
    IF \E r \in d.web_contents : r.url = url
    THEN bumped
    ELSE [bumped EXCEPT !.web_contents = @ \cup
             {[id |-> id, url |-> url, content |-> content, timestamp |-> now]}]

\* mutant: one answer per question, the new one in place of the old
ReplaceAnswer(d, query_id, answer_text, source_url, now) ==
    LET id == d.seq.answers + 1 IN
    [d EXCEPT !.seq.answers = id,
              !.answers = {a \in @ : a.query_id # query_id} \cup
                  {[id |-> id, query_id |-> query_id, answer_text |-> answer_text,
                    source_url |-> source_url, timestamp |-> now]}]

\* INSERT INTO answers (query_id, answer_text, source_url) VALUES (?, ?, ?)
InsertAnswer(d, query_id, answer_text, source_url, now) ==
    LET id == d.seq.answers + 1 IN
    [d EXCEPT !.seq.answers = id,
              !.answers = @ \cup
                  {[id |-> id, query_id |-> query_id, answer_text |-> answer_text,
                    source_url |-> source_url, timestamp |-> now]}]

\* answers.answer_text is NOT NULL: the INSERT raises sqlite3.IntegrityError
AnswerNotNullViolated(answer_text) == answer_text = PyNone

\* mutant: the join without its WHERE q.question = ?
AnswersOfAnyQuestion(d, question) == d.answers

\* SELECT a.answer_text, a.source_url FROM answers a JOIN queries q
\*   ON a.query_id = q.id WHERE q.question = ?
AnswersOf(d, question) ==
    {a \in d.answers : \E q \in d.queries : q.question = question /\ a.query_id = q.id}

\* ... ORDER BY a.timestamp DESC LIMIT 1: SQL leaves the order of rows with an
\* equal timestamp open, so any row of the latest second can come first
SelectLatestAnswer(d, question) ==
    {a \in AnswersOf(d, question) :
        \A b \in AnswersOf(d, question) : b.timestamp <= a.timestamp}

\* SELECT sr.brave_response_json FROM search_results sr JOIN queries q
\*   ON sr.query_id = q.id WHERE q.question = ? ORDER BY sr.id DESC LIMIT 1
SearchResultsOf(d, question) ==
    {s \in d.search_results :
        \E q \in d.queries : q.question = question /\ s.query_id = q.id}

SelectLatestSearchResult(d, question) ==
    {s \in SearchResultsOf(d, question) :
        \A b \in SearchResultsOf(d, question) : b.id <= s.id}

\* mutant: a SELECT that lost its WHERE clause
SelectContentAnyUrl(d, url) == d.web_contents

\* SELECT content FROM web_contents WHERE url = ?
SelectContent(d, url) == {r \in d.web_contents : r.url = url}

(***************************************************************************)
(* Arguments the callers pass.                                             *)
(***************************************************************************)
Questions == {"q1", "q2"}
Urls == {"u1", "u2"}

R1 == PyDict(<< <<PyStr("k"), PyList(<<PyInt(1)>>)>> >>)
R2 == PyDict(<<>>)
RUnserializable == PyDict(<< <<PyStr("k"), PySet(<<>>)>> >>)

\* (brave_response_json, web_contents_data, answer_text, source_url) of the
\* cycles the callers record: three that can be cached, one whose response
\* json.dumps rejects, one whose answer is None, one whose second
\* web_contents_data entry is a 1-tuple
Cycle(response, contents, answer, source) ==
    [brave_response_json |-> response, web_contents_data |-> contents,
     answer_text |-> answer, source_url |-> source]

CycleInputs ==
    { Cycle(R1, << <<"u1", "old">> >>, "A1", "s1"),
      Cycle(R2, << <<"u1", "new">>, <<"u2", "old">> >>, "A2", "s2"),
      Cycle(R1, <<>>, "A1", "s1"),
      Cycle(RUnserializable, <<>>, "A1", "s1"),
      Cycle(R1, << <<"u1", "new">>, <<"u2", "old">> >>, PyNone, "s1"),
      Cycle(R1, << <<"u1", "new">>, <<"u2">> >>, "A1", "s1") }

UrlInputs == { <<>>, <<"u1", "u2">> }

(***************************************************************************)
(* What a call hands back to its caller.                                   *)
(***************************************************************************)
Pending == [kind |-> "pending"]
Return(val) == [kind |-> "return", val |-> val]
Raise(exc) == [kind |-> "raise", exc |-> exc]

RNone == [py |-> "None"]
RRow(a) == [py |-> "tuple", answer_text |-> a.answer_text, source_url |-> a.source_url]
RValue(v) == [py |-> "value", v |-> v]
RDict(f) == [py |-> "dict", items |-> f]
EmptyDict == [u \in {} |-> ""]

NoCall == [op |-> "none"]
NoTxn == [open |-> FALSE]

VARIABLES
    cmState,   \* "new": not constructed; "ready": tables exist;
               \* "broken": _initialize_db failed and __init__ returned all the same
    db,        \* the committed store
    txn,       \* per caller: the store as its open write transaction sees it,
               \* or NoTxn; an open write transaction holds the store's write lock
    clock,     \* CURRENT_TIMESTAMP
    pc,        \* per caller: the statement it is about to execute
    call,      \* per caller: the method it is in and its arguments
    query_id,  \* per caller: local of cache_qa_data
    idx,       \* per caller: position of the for loop
    cached_contents, \* per caller: local of get_cached_web_contents
    outcome,   \* per caller: what the finished call returned or raised
    sqlErr,    \* per caller: the call caught a sqlite3.Error
    seen,      \* per caller: how many cache_qa_data calls had committed when
               \* its call connected to the store
    calls,     \* number of cache_qa_data calls started
    log        \* the cache_qa_data calls that committed, in commit order

vars == <<cmState, db, txn, clock, pc, call, query_id, idx,
          cached_contents, outcome, sqlErr, seen, calls, log>>

locals == <<query_id, idx, cached_contents, seen>>

Init ==
    /\ cmState = "new"
    /\ db = EmptyDb
    /\ txn = [p \in Procs |-> NoTxn]
    /\ clock = 0
    /\ pc = [p \in Procs |-> "idle"]
    /\ call = [p \in Procs |-> NoCall]
    /\ query_id = [p \in Procs |-> 0]
    /\ idx = [p \in Procs |-> 0]
    /\ cached_contents = [p \in Procs |-> EmptyDict]
    /\ outcome = [p \in Procs |-> Pending]
    /\ sqlErr = [p \in Procs |-> FALSE]
    /\ seen = [p \in Procs |-> 0]
    /\ calls = 0
    /\ log = <<>>

(***************************************************************************)
(* __init__ / _initialize_db                                               *)
(***************************************************************************)
\* CREATE TABLE IF NOT EXISTS x 4, commit: an existing store is left as it is
InitializeDb ==
    /\ cmState = "new"
    /\ cmState' = "ready"
    /\ UNCHANGED <<db, txn, clock, pc, call, locals, outcome, sqlErr, calls, log>>

\* except sqlite3.Error: print; finally close.  __init__ returns normally.
InitializeDbError ==
    /\ cmState = "new"
    /\ cmState' = "broken"
    /\ UNCHANGED <<db, txn, clock, pc, call, locals, outcome, sqlErr, calls, log>>

\* the wall clock behind CURRENT_TIMESTAMP
Tick ==
    /\ clock < MaxTime
    /\ clock' = clock + 1
    /\ UNCHANGED <<cmState, db, txn, pc, call, locals, outcome, sqlErr, calls, log>>

(***************************************************************************)
(* cache_qa_data                                                           *)
(***************************************************************************)

\* mutant: no write lock, every connection may open a write transaction
WriteLockAlwaysFree(t) == TRUE

\* SQLite grants the write lock to one connection at a time
WriteLockFree(t) == \A p \in Procs : t[p] = NoTxn

\* mutant: the except branch commits what the call wrote so far
AfterCommitInstead(committed, uncommitted) == uncommitted

\* conn.rollback(): the store is what was committed before
AfterRollback(committed, uncommitted) == committed

\* mutant: a connection that commits what is pending when it is closed
AfterCloseCommitting(committed, uncommitted) ==
    IF uncommitted = NoTxn THEN committed ELSE uncommitted

\* conn.close() with a transaction open and no commit discards the transaction
AfterClose(committed, uncommitted) == committed

LogEntry(p, d) ==
    [question |-> call[p].question,
     query_id |-> query_id[p],
     search_result_id |-> d.seq.search_results,
     answer_id |-> d.seq.answers,
     urls |-> {r.url : r \in d.web_contents \ db.web_contents},
     contents |-> call[p].web_contents_data,
     response |-> call[p].brave_response_json,
     answer_text |-> call[p].answer_text,
     source_url |-> call[p].source_url]

\* conn = sqlite3.connect(self.db_path); cursor = conn.cursor()
CallCacheQaData(p, question, cycle) ==
    /\ pc[p] = "idle"
    /\ cmState # "new"
    /\ calls < MaxCalls
    /\ calls' = calls + 1
    /\ pc' = [pc EXCEPT ![p] = "insert_query"]
    /\ call' = [call EXCEPT ![p] =
                   [op |-> "cache_qa_data", question |-> question,
                    brave_response_json |-> cycle.brave_response_json,
                    web_contents_data |-> cycle.web_contents_data,
                    answer_text |-> cycle.answer_text,
                    source_url |-> cycle.source_url]]
    /\ seen' = [seen EXCEPT ![p] = Len(log)]
    /\ UNCHANGED <<cmState, db, txn, clock, query_id, idx, cached_contents, outcome,
                   sqlErr, log>>

\* step 1: the INSERT opens the transaction; query_id = cursor.fetchone()[0]
ExecInsertQuery(p) ==
    /\ pc[p] = "insert_query"
    /\ cmState = "ready"
    /\ WriteLockFree(txn)
    /\ LET d == InsertOrIgnoreQuery(db, call[p].question, clock) IN
        /\ txn' = [txn EXCEPT ![p] = d]
        /\ query_id' = [query_id EXCEPT ![p] =
                           CHOOSE id \in SelectQueryId(d, call[p].question) : TRUE]
    /\ pc' = [pc EXCEPT ![p] = "insert_search_result"]
    /\ UNCHANGED <<cmState, db, clock, call, idx, cached_contents, seen, outcome,
                   sqlErr, calls, log>>

\* step 2
ExecInsertSearchResult(p) ==
    /\ pc[p] = "insert_search_result"
    /\ Serializable(call[p].brave_response_json)
    /\ txn' = [txn EXCEPT ![p] =
                  InsertSearchResult(@, query_id[p], Dumps(call[p].brave_response_json))]
    /\ pc' = [pc EXCEPT ![p] = "insert_web_contents"]
    /\ idx' = [idx EXCEPT ![p] = 1]
    /\ UNCHANGED <<cmState, db, clock, call, query_id, cached_contents, seen, outcome,
                   sqlErr, calls, log>>

\* json.dumps raises TypeError: no except clause takes it, finally closes the
\* connection, the exception reaches the caller
DumpsTypeError(p) ==
    /\ pc[p] = "insert_search_result"
    /\ ~Serializable(call[p].brave_response_json)
    /\ db' = AfterClose(db, txn[p])
    /\ txn' = [txn EXCEPT ![p] = NoTxn]
    /\ pc' = [pc EXCEPT ![p] = "returned"]
    /\ outcome' = [outcome EXCEPT ![p] = Raise("TypeError")]
    /\ UNCHANGED <<cmState, clock, call, locals, sqlErr, calls, log>>

\* step 3: one turn of the for loop
ExecInsertWebContent(p) ==
    /\ pc[p] = "insert_web_contents"
    /\ idx[p] <= Len(call[p].web_contents_data)
    /\ Len(call[p].web_contents_data[idx[p]]) = 2
    /\ LET pair == call[p].web_contents_data[idx[p]] IN
        txn' = [txn EXCEPT ![p] = InsertOrIgnoreWebContent(@, pair[1], pair[2], clock)]
    /\ idx' = [idx EXCEPT ![p] = @ + 1]
    /\ UNCHANGED <<cmState, db, clock, pc, call, query_id, cached_contents, seen,
                   outcome, sqlErr, calls, log>>

\* `for url, content in web_contents_data` meets an entry that is not a pair:
\* ValueError, which no except clause takes; finally closes the connection
UnpackValueError(p) ==
    /\ pc[p] = "insert_web_contents"
    /\ idx[p] <= Len(call[p].web_contents_data)
    /\ Len(call[p].web_contents_data[idx[p]]) # 2
    /\ db' = AfterClose(db, txn[p])
    /\ txn' = [txn EXCEPT ![p] = NoTxn]
    /\ pc' = [pc EXCEPT ![p] = "returned"]
    /\ outcome' = [outcome EXCEPT ![p] = Raise("ValueError")]
    /\ UNCHANGED <<cmState, clock, call, locals, sqlErr, calls, log>>

\* step 4, after the loop
ExecInsertAnswer(p) ==
    /\ pc[p] = "insert_web_contents"
    /\ idx[p] > Len(call[p].web_contents_data)
    /\ ~AnswerNotNullViolated(call[p].answer_text)
    /\ txn' = [txn EXCEPT ![p] =
                  InsertAnswer(@, query_id[p], call[p].answer_text,
                               call[p].source_url, clock)]
    /\ pc' = [pc EXCEPT ![p] = "commit"]
    /\ UNCHANGED <<cmState, db, clock, call, locals, outcome, sqlErr, calls, log>>

\* conn.commit(); print; finally close.  The method returns None.
Commit(p) ==
    /\ pc[p] = "commit"
    /\ db' = txn[p]
    /\ log' = Append(log, LogEntry(p, txn[p]))
    /\ txn' = [txn EXCEPT ![p] = NoTxn]
    /\ pc' = [pc EXCEPT ![p] = "returned"]
    /\ outcome' = [outcome EXCEPT ![p] = Return(RNone)]
    /\ UNCHANGED <<cmState, clock, call, locals, sqlErr, calls>>

CacheStatementPcs == {"insert_query", "insert_search_result", "insert_web_contents", "commit"}

\* A statement raises sqlite3.Error (no such table, database is locked, disk
\* I/O error, NOT NULL constraint failed: answers.answer_text, ...):
\* except: print, conn.rollback(); finally close.  The method returns None.
CacheQaDataSqliteError(p) ==
    /\ pc[p] \in CacheStatementPcs
    /\ db' = IF txn[p] = NoTxn THEN db ELSE AfterRollback(db, txn[p])
    /\ txn' = [txn EXCEPT ![p] = NoTxn]
    /\ pc' = [pc EXCEPT ![p] = "returned"]
    /\ outcome' = [outcome EXCEPT ![p] = Return(RNone)]
    /\ sqlErr' = [sqlErr EXCEPT ![p] = TRUE]
    /\ UNCHANGED <<cmState, clock, call, locals, calls, log>>

(***************************************************************************)
(* get_cached_answer                                                       *)
(***************************************************************************)

\* mutant: a lookup that also records the question it was asked
GetCachedAnswerRecordingQuery(p, question) ==
    /\ p \in Readers
    /\ pc[p] = "idle"
    /\ cmState = "ready"
    /\ \/ /\ SelectLatestAnswer(db, question) = {}
          /\ outcome' = [outcome EXCEPT ![p] = Return(RNone)]
       \/ \E a \in SelectLatestAnswer(db, question) :
             outcome' = [outcome EXCEPT ![p] = Return(RRow(a))]
    /\ db' = InsertOrIgnoreQuery(db, question, clock)
    /\ pc' = [pc EXCEPT ![p] = "returned"]
    /\ call' = [call EXCEPT ![p] = [op |-> "get_cached_answer", question |-> question]]
    /\ seen' = [seen EXCEPT ![p] = Len(log)]
    /\ UNCHANGED <<cmState, txn, clock, query_id, idx, cached_contents, sqlErr,
                   calls, log>>

\* result = cursor.fetchone(); return result
GetCachedAnswer(p, question) ==
    /\ p \in Readers
    /\ pc[p] = "idle"
    /\ cmState = "ready"
    /\ \/ /\ SelectLatestAnswer(db, question) = {}
          /\ outcome' = [outcome EXCEPT ![p] = Return(RNone)]
       \/ \E a \in SelectLatestAnswer(db, question) :
             outcome' = [outcome EXCEPT ![p] = Return(RRow(a))]
    /\ pc' = [pc EXCEPT ![p] = "returned"]
    /\ call' = [call EXCEPT ![p] = [op |-> "get_cached_answer", question |-> question]]
    /\ seen' = [seen EXCEPT ![p] = Len(log)]
    /\ UNCHANGED <<cmState, db, txn, clock, query_id, idx, cached_contents, sqlErr,
                   calls, log>>

\* except sqlite3.Error: print; return None
GetCachedAnswerSqliteError(p, question) ==
    /\ p \in Readers
    /\ pc[p] = "idle"
    /\ cmState # "new"
    /\ outcome' = [outcome EXCEPT ![p] = Return(RNone)]
    /\ sqlErr' = [sqlErr EXCEPT ![p] = TRUE]
    /\ pc' = [pc EXCEPT ![p] = "returned"]
    /\ call' = [call EXCEPT ![p] = [op |-> "get_cached_answer", question |-> question]]
    /\ UNCHANGED <<cmState, db, txn, clock, locals, calls, log>>

(***************************************************************************)
(* get_cached_brave_response                                               *)
(***************************************************************************)

\* mutant: a bare except that turns every failure into None
DecodeOrNone(text) ==
    IF Loads(text).ok THEN Return(RValue(Loads(text).val))
    ELSE Return(RNone)

\* return json.loads(result[0]): a JSONDecodeError is no sqlite3.Error, so no
\* except clause takes it and it reaches the caller
DecodeOutcome(text) ==
    IF Loads(text).ok THEN Return(RValue(Loads(text).val))
    ELSE Raise("JSONDecodeError")

GetCachedBraveResponse(p, question) ==
    /\ p \in Readers
    /\ pc[p] = "idle"
    /\ cmState = "ready"
    /\ \/ /\ SelectLatestSearchResult(db, question) = {}
          /\ outcome' = [outcome EXCEPT ![p] = Return(RNone)]
       \/ \E r \in SelectLatestSearchResult(db, question) :
             outcome' = [outcome EXCEPT ![p] = DecodeOutcome(r.brave_response_json)]
    /\ pc' = [pc EXCEPT ![p] = "returned"]
    /\ call' = [call EXCEPT ![p] =
                   [op |-> "get_cached_brave_response", question |-> question]]
    /\ seen' = [seen EXCEPT ![p] = Len(log)]
    /\ UNCHANGED <<cmState, db, txn, clock, query_id, idx, cached_contents, sqlErr,
                   calls, log>>

\* except sqlite3.Error: print; return None
GetCachedBraveResponseSqliteError(p, question) ==
    /\ p \in Readers
    /\ pc[p] = "idle"
    /\ cmState # "new"
    /\ outcome' = [outcome EXCEPT ![p] = Return(RNone)]
    /\ sqlErr' = [sqlErr EXCEPT ![p] = TRUE]
    /\ pc' = [pc EXCEPT ![p] = "returned"]
    /\ call' = [call EXCEPT ![p] =
                   [op |-> "get_cached_brave_response", question |-> question]]
    /\ UNCHANGED <<cmState, db, txn, clock, locals, calls, log>>

(***************************************************************************)
(* get_cached_web_contents                                                 *)
(***************************************************************************)
\* cached_contents = {}; conn = sqlite3.connect(self.db_path)
CallGetCachedWebContents(p, urls) ==
    /\ p \in Readers
    /\ pc[p] = "idle"
    /\ cmState # "new"
    /\ pc' = [pc EXCEPT ![p] = "select_content"]
    /\ call' = [call EXCEPT ![p] = [op |-> "get_cached_web_contents", urls |-> urls]]
    /\ idx' = [idx EXCEPT ![p] = 1]
    /\ cached_contents' = [cached_contents EXCEPT ![p] = EmptyDict]
    /\ seen' = [seen EXCEPT ![p] = Len(log)]
    /\ UNCHANGED <<cmState, db, txn, clock, query_id, outcome, sqlErr, calls, log>>

\* cached_contents[url] = result[0]
DictPut(f, key, val) ==
    [k \in DOMAIN f \cup {key} |-> IF k = key THEN val ELSE f[k]]

\* one turn of the for loop: each SELECT is a read of its own of the
\* committed store
ExecSelectContent(p) ==
    /\ pc[p] = "select_content"
    /\ cmState = "ready"
    /\ idx[p] <= Len(call[p].urls)
    /\ LET url == call[p].urls[idx[p]]
           result == SelectContent(db, url) IN
        cached_contents' = [cached_contents EXCEPT ![p] =
            IF result = {} THEN @
            ELSE DictPut(@, url, (CHOOSE r \in result : TRUE).content)]
    /\ idx' = [idx EXCEPT ![p] = @ + 1]
    /\ UNCHANGED <<cmState, db, txn, clock, pc, call, query_id, seen, outcome, sqlErr,
                   calls, log>>

\* return cached_contents (with no url left to look up, no statement runs)
ReturnCachedWebContents(p) ==
    /\ pc[p] = "select_content"
    /\ idx[p] > Len(call[p].urls)
    /\ outcome' = [outcome EXCEPT ![p] = Return(RDict(cached_contents[p]))]
    /\ pc' = [pc EXCEPT ![p] = "returned"]
    /\ UNCHANGED <<cmState, db, txn, clock, call, locals, sqlErr, calls, log>>

\* except sqlite3.Error: print; return {}
GetCachedWebContentsSqliteError(p) ==
    /\ pc[p] = "select_content"
    /\ outcome' = [outcome EXCEPT ![p] = Return(RDict(EmptyDict))]
    /\ sqlErr' = [sqlErr EXCEPT ![p] = TRUE]
    /\ pc' = [pc EXCEPT ![p] = "returned"]
    /\ UNCHANGED <<cmState, db, txn, clock, call, locals, calls, log>>

\* the caller takes the result and is free to make its next call
TakeResult(p) ==
    /\ pc[p] = "returned"
    /\ pc' = [pc EXCEPT ![p] = "idle"]
    /\ call' = [call EXCEPT ![p] = NoCall]
    /\ outcome' = [outcome EXCEPT ![p] = Pending]
    /\ sqlErr' = [sqlErr EXCEPT ![p] = FALSE]
    /\ query_id' = [query_id EXCEPT ![p] = 0]
    /\ idx' = [idx EXCEPT ![p] = 0]
    /\ cached_contents' = [cached_contents EXCEPT ![p] = EmptyDict]
    /\ seen' = [seen EXCEPT ![p] = 0]
    /\ UNCHANGED <<cmState, db, txn, clock, calls, log>>

Next ==
    \/ InitializeDb
    \/ InitializeDbError
    \/ Tick
    \/ \E p \in Procs :
        \/ \E q \in Questions, c \in CycleInputs : CallCacheQaData(p, q, c)
        \/ ExecInsertQuery(p)
        \/ ExecInsertSearchResult(p)
        \/ DumpsTypeError(p)
        \/ ExecInsertWebContent(p)
        \/ UnpackValueError(p)
        \/ ExecInsertAnswer(p)
        \/ Commit(p)
        \/ CacheQaDataSqliteError(p)
        \/ \E q \in Questions : GetCachedAnswer(p, q)
        \/ \E q \in Questions : GetCachedAnswerSqliteError(p, q)
        \/ \E q \in Questions : GetCachedBraveResponse(p, q)
        \/ \E q \in Questions : GetCachedBraveResponseSqliteError(p, q)
        \/ \E u \in UrlInputs : CallGetCachedWebContents(p, u)
        \/ ExecSelectContent(p)
        \/ ReturnCachedWebContents(p)
        \/ GetCachedWebContentsSqliteError(p)
        \/ TakeResult(p)

Spec == Init /\ [][Next]_vars

(***************************************************************************)
(* A CacheManager constructed on a store file that exists already: the     *)
(* CREATE TABLE IF NOT EXISTS statements leave its rows as they are.  The  *)
(* stores below hold a search response text that is no JSON text (a        *)
(* truncated write, an edit from outside).                                 *)
(***************************************************************************)
CorruptTexts == { <<>>, <<Punct("{")>>, SubSeq(Dumps(R1), 1, 4) }

ExistingStore(texts) ==
    [queries |-> {[id |-> 1, question |-> "q1", timestamp |-> 0]},
     search_results |->
         {[id |-> i, query_id |-> 1, brave_response_json |-> texts[i]] :
             i \in 1..Len(texts)},
     web_contents |-> {},
     answers |-> {[id |-> i, query_id |-> 1, answer_text |-> "A1",
                   source_url |-> "s1", timestamp |-> 0] : i \in 1..Len(texts)},
     seq |-> [queries |-> 1, search_results |-> Len(texts), web_contents |-> 0,
              answers |-> Len(texts)]]

ExistingStores ==
    { ExistingStore(<< <<>> >>),
      ExistingStore(<<Dumps(R1), <<Punct("{")>> >>),
      ExistingStore(<<SubSeq(Dumps(R1), 1, 4), Dumps(R1)>>) }

InitExisting ==
    /\ cmState = "new"
    /\ db \in ExistingStores
    /\ txn = [p \in Procs |-> NoTxn]
    /\ clock = 0
    /\ pc = [p \in Procs |-> "idle"]
    /\ call = [p \in Procs |-> NoCall]
    /\ query_id = [p \in Procs |-> 0]
    /\ idx = [p \in Procs |-> 0]
    /\ cached_contents = [p \in Procs |-> EmptyDict]
    /\ outcome = [p \in Procs |-> Pending]
    /\ sqlErr = [p \in Procs |-> FALSE]
    /\ seen = [p \in Procs |-> 0]
    /\ calls = 0
    /\ log = <<>>

SpecExisting == InitExisting /\ [][Next]_vars

(***************************************************************************)
(* The history the claims speak about.                                     *)
(***************************************************************************)
Min(S) == CHOOSE x \in S : \A y \in S : x <= y
Max(S) == CHOOSE x \in S : \A y \in S : y <= x

\* the first n committed calls that were made for question
CommitsFor(question, n) == {i \in 1..n : log[i].question = question}

\* positions in contents of the pairs for url
PairsFor(contents, url) == {k \in 1..Len(contents) : contents[k][1] = url}

\* the first n committed calls whose web_contents_data names url
CommitsNaming(url, n) == {i \in 1..n : PairsFor(log[i].contents, url) # {}}

\* the content of the first pair for url that a committed call supplied
FirstWritten(url, n) ==
    LET c == log[Min(CommitsNaming(url, n))].contents IN c[Min(PairsFor(c, url))][2]

InCacheQaData(p) == call[p].op = "cache_qa_data"

\* p's cache_qa_data call has ended and has not committed
EndedWithoutCommit(p) ==
    /\ InCacheQaData(p)
    /\ pc[p] = "returned"
    /\ outcome[p] # Return(RNone) \/ sqlErr[p]

\* p's cache_qa_data call has ended with conn.commit()
EndedWithCommit(p) ==
    /\ InCacheQaData(p)
    /\ pc[p] = "returned"
    /\ outcome[p] = Return(RNone)
    /\ ~sqlErr[p]

UniqueQuestion(d) ==
    \A r1, r2 \in d.queries : r1.question = r2.question => r1 = r2

(***************************************************************************)
(* C1.  cache_qa_data is atomic: when a call ends without commit, whatever *)
(* statement failed, the committed store is left as it was (nothing the    *)
(* call wrote becomes visible and its transaction is gone); and while a    *)
(* call has its transaction open the committed store changes only by that  *)
(* call's own commit, so the store after a failed call is the store before *)
(* its first write.                                                        *)
(***************************************************************************)
C1_FailedCallLeavesStore ==
    [][\A p \in Procs :
          /\ (InCacheQaData(p) /\ pc[p] # "returned" /\ EndedWithoutCommit(p)')
                => (db' = db /\ txn'[p] = NoTxn)
          /\ (txn[p] # NoTxn /\ db' # db)
                => (pc[p] = "commit" /\ EndedWithCommit(p)' /\ db' = txn[p])
      ]_vars

\* a call that had inserted its Query, SearchResult and two WebContent rows
\* fails at the Answer insert, on a store that holds an earlier cycle
C1_Witness ==
    \E p \in Procs :
        /\ EndedWithoutCommit(p)
        /\ sqlErr[p]
        /\ call[p].answer_text = PyNone
        /\ Len(call[p].web_contents_data) = 2
        /\ idx[p] = 3
        /\ Len(log) = 1
        /\ db.seq.answers = 1
        /\ Cardinality(db.search_results) = 1

(***************************************************************************)
(* C2.  Latest-wins for answers: a get_cached_answer(Q) that reads the     *)
(* store returns the (answer_text, source_url) of the last cache_qa_data   *)
(* call for Q that had committed, also when the Answer rows of Q carry the *)
(* same timestamp.                                                         *)
(***************************************************************************)
C2_LatestAnswerWins ==
    \A p \in Procs :
        (/\ pc[p] = "returned"
         /\ call[p].op = "get_cached_answer"
         /\ ~sqlErr[p]
         /\ CommitsFor(call[p].question, seen[p]) # {})
        => LET e == log[Max(CommitsFor(call[p].question, seen[p]))] IN
           outcome[p] = Return([py |-> "tuple", answer_text |-> e.answer_text,
                                source_url |-> e.source_url])

(***************************************************************************)
(* C3.  Idempotent question identity: the committed store holds at most    *)
(* one Query row per question text, and every committed cache_qa_data call *)
(* for a question carries the query id of the first such call: its         *)
(* SearchResult row and its Answer row are in the store under that id, and *)
(* that id is the id of the Query row of the question.                     *)
(***************************************************************************)
C3_OneQueryPerQuestion ==
    /\ UniqueQuestion(db)
    /\ \A i \in 1..Len(log) :
          LET e == log[i]
              first == log[Min(CommitsFor(e.question, Len(log)))] IN
          /\ e.query_id = first.query_id
          /\ \E q \in db.queries : q.id = first.query_id /\ q.question = e.question
          /\ \E r \in db.search_results :
                r.id = e.search_result_id /\ r.query_id = first.query_id
          /\ \E a \in db.answers :
                a.id = e.answer_id /\ a.query_id = first.query_id

\* two committed calls for one question: the second INSERT was ignored
C3_Witness ==
    /\ Len(log) = 2
    /\ log[1].question = log[2].question
    /\ db.seq.queries = 2
    /\ Cardinality(db.queries) = 1
    /\ Cardinality(db.answers) = 2

(***************************************************************************)
(* C4.  First-write-wins for content: once a committed call has supplied   *)
(* content for a url, the store holds exactly that content for the url     *)
(* whatever later calls supply, and every get_cached_web_contents that     *)
(* started after the commit and names the url returns that content.        *)
(***************************************************************************)
C4_FirstWriteWins ==
    /\ \A u \in Urls :
          CommitsNaming(u, Len(log)) # {}
          => {r.content : r \in SelectContent(db, u)} = {FirstWritten(u, Len(log))}
    /\ \A p \in Procs :
          (/\ pc[p] = "returned"
           /\ call[p].op = "get_cached_web_contents"
           /\ ~sqlErr[p])
          => \A k \in 1..Len(call[p].urls) :
                LET u == call[p].urls[k] IN
                CommitsNaming(u, seen[p]) # {}
                => /\ u \in DOMAIN outcome[p].val.items
                   /\ outcome[p].val.items[u] = FirstWritten(u, seen[p])

\* the url was stored as "old", a later committed call supplied "new", and a
\* lookup made after both returned "old"
C4_Witness ==
    \E p \in Procs :
        /\ pc[p] = "returned"
        /\ call[p].op = "get_cached_web_contents"
        /\ ~sqlErr[p]
        /\ seen[p] = 2
        /\ log[1].contents = << <<"u1", "old">> >>
        /\ log[2].contents = << <<"u1", "new">>, <<"u2", "old">> >>
        /\ outcome[p] = Return(RDict([u \in {"u1", "u2"} |-> "old"]))

(***************************************************************************)
(* C5.  Two concurrent cache_qa_data calls for one question: at most one   *)
(* write transaction is open at a time, neither the committed store nor an *)
(* open transaction ever holds two Query rows for a question, the query id *)
(* a call works with is the id of the one Query row of its question (the   *)
(* committed row when there is one), and every call that committed has its *)
(* SearchResult and Answer rows in the store under that id.                *)
(***************************************************************************)
C5_ConcurrentCallsShareQuery ==
    /\ Cardinality({p \in Procs : txn[p] # NoTxn}) <= 1
    /\ UniqueQuestion(db)
    /\ \A p \in Procs :
          txn[p] # NoTxn
          => /\ UniqueQuestion(txn[p])
             /\ SelectQueryId(txn[p], call[p].question) = {query_id[p]}
             /\ SelectQueryId(db, call[p].question) \subseteq {query_id[p]}
    /\ \A p \in Procs :
          EndedWithCommit(p)
          => /\ SelectQueryId(db, call[p].question) = {query_id[p]}
             /\ \E i \in 1..Len(log) :
                   /\ log[i].question = call[p].question
                   /\ log[i].query_id = query_id[p]
                   /\ \E r \in db.search_results :
                         r.id = log[i].search_result_id /\ r.query_id = query_id[p]
                   /\ \E a \in db.answers :
                         a.id = log[i].answer_id /\ a.query_id = query_id[p]

\* both calls connected before either had committed; the first has
\* committed, and the second, whose INSERT was ignored, works with the id of
\* the row the first one committed
C5_Witness ==
    \E p, r \in Procs :
        /\ p # r
        /\ EndedWithCommit(p)
        /\ InCacheQaData(r)
        /\ call[r].question = call[p].question
        /\ seen[p] = 0
        /\ seen[r] = 0
        /\ pc[r] = "commit"
        /\ txn[r].seq.queries = 2
        /\ query_id[r] = query_id[p]

(***************************************************************************)
(* C6.  A lookup that runs concurrently with a cache_qa_data call sees     *)
(* none of the call's rows or all of them: get_cached_answer and           *)
(* get_cached_brave_response return what a committed call wrote, and the   *)
(* mapping get_cached_web_contents returns holds, of the urls it was asked *)
(* for, either every url a given call inserted or none of them.            *)
(***************************************************************************)
C6_NoIntermediateStateObserved ==
    \A p \in Procs :
        (pc[p] = "returned" /\ ~sqlErr[p]) =>
            /\ (call[p].op = "get_cached_answer" /\ outcome[p] # Return(RNone))
                  => \E i \in CommitsFor(call[p].question, seen[p]) :
                        outcome[p].val.answer_text = log[i].answer_text
            /\ (call[p].op = "get_cached_brave_response" /\ outcome[p] # Return(RNone))
                  => CommitsFor(call[p].question, seen[p]) # {}
            /\ call[p].op = "get_cached_web_contents"
                  => \A i \in 1..Len(log) :
                        LET asked == {call[p].urls[k] : k \in 1..Len(call[p].urls)}
                            mine == log[i].urls \cap asked IN
                        \/ mine \cap DOMAIN outcome[p].val.items = {}
                        \/ mine \subseteq DOMAIN outcome[p].val.items

(***************************************************************************)
(* C7.  The caller of cache_qa_data is told when the call did not commit:  *)
(* what a call that rolled back returns or raises differs from what a call *)
(* that committed returns.                                                 *)
(***************************************************************************)
C7_FailureIsSignalled ==
    \A p \in Procs : EndedWithoutCommit(p) => outcome[p] # Return(RNone)

(***************************************************************************)
(* C8.  A failed initialization is fatal: when _initialize_db could not    *)
(* create the tables, no call on the CacheManager returns what it would    *)
(* return on an empty store (None, the empty mapping).                     *)
(***************************************************************************)
C8_InitFailureIsFatal ==
    cmState = "broken"
    => \A p \in Procs :
          pc[p] = "returned"
          => outcome[p] \notin {Return(RNone), Return(RDict(EmptyDict))}

(***************************************************************************)
(* C9.  A store error during a lookup is not reported as a miss: a lookup  *)
(* that caught a sqlite3.Error returns neither None nor the empty mapping. *)
(***************************************************************************)
C9_LookupErrorIsNotAMiss ==
    \A p \in Procs :
        (/\ pc[p] = "returned"
         /\ call[p].op \in {"get_cached_answer", "get_cached_brave_response",
                            "get_cached_web_contents"}
         /\ sqlErr[p])
        => outcome[p] \notin {Return(RNone), Return(RDict(EmptyDict))}

(***************************************************************************)
(* C10.  A corrupt record is not a miss: when the latest SearchResult text *)
(* of the question is no JSON text, a get_cached_brave_response that read  *)
(* the store raises JSONDecodeError to its caller and does not return      *)
(* None.                                                                   *)
(***************************************************************************)
C10_CorruptRecordRaises ==
    \A p \in Procs :
        (/\ pc[p] = "returned"
         /\ call[p].op = "get_cached_brave_response"
         /\ ~sqlErr[p]
         /\ \E r \in SearchResultsOf(db, call[p].question) :
               /\ \A b \in SearchResultsOf(db, call[p].question) : b.id <= r.id
               /\ r.brave_response_json \in CorruptTexts)
        => /\ outcome[p] = Raise("JSONDecodeError")
           /\ outcome[p] # Return(RNone)

\* the store holds a readable text and, after it, a truncated one
C10_Witness ==
    \E p \in Procs :
        /\ pc[p] = "returned"
        /\ call[p].op = "get_cached_brave_response"
        /\ call[p].question = "q1"
        /\ ~sqlErr[p]
        /\ db.search_results =
              {[id |-> 1, query_id |-> 1, brave_response_json |-> Dumps(R1)],
               [id |-> 2, query_id |-> 1, brave_response_json |-> <<Punct("{")>>]}
        /\ outcome[p] = Raise("JSONDecodeError")

(***************************************************************************)
(* C11. get_cached_web_contents over a store that no commit changes        *)
(* during the call returns a dict whose keys are exactly the urls of the   *)
(* argument that have a web_contents row, each with the content of its     *)
(* row; a url without a row is left out and raises nothing; with no row    *)
(* in the table or no url in the argument the dict is empty.               *)
(***************************************************************************)
\* p's get_cached_web_contents call has returned, no statement of it failed
\* and no call committed since it connected
QuietWebContentsLookup(p) ==
    /\ pc[p] = "returned"
    /\ call[p].op = "get_cached_web_contents"
    /\ ~sqlErr[p]
    /\ seen[p] = Len(log)

AskedUrls(p) == {call[p].urls[k] : k \in 1..Len(call[p].urls)}

\* the dict the table answers a list of urls with
ContentsOf(d, asked) ==
    [u \in {v \in asked : \E r \in d.web_contents : r.url = v} |->
        (CHOOSE r \in d.web_contents : r.url = u).content]

C11_MissingUrlsAreOmitted ==
    \A p \in Readers :
        QuietWebContentsLookup(p) =>
            /\ outcome[p] = Return(RDict(ContentsOf(db, AskedUrls(p))))
            /\ (db.web_contents = {} \/ call[p].urls = <<>>) =>
                   outcome[p] = Return(RDict(EmptyDict))

\* both urls asked for, only "u1" has a row: the dict holds "u1" alone
C11_Witness ==
    \E p \in Readers :
        /\ QuietWebContentsLookup(p)
        /\ call[p].urls = <<"u1", "u2">>
        /\ {r.url : r \in db.web_contents} = {"u1"}
        /\ outcome[p] = Return(RDict([u \in {"u1"} |-> "old"]))

(***************************************************************************)
(* C12. get_cached_answer matches the question text exactly: for a         *)
(* question no committed cache_qa_data call recorded it returns None and   *)
(* raises nothing, whatever other questions are in the store; for a        *)
(* question that was recorded it returns the (answer_text, source_url) of  *)
(* a committed call for that very text.                                    *)
(***************************************************************************)
\* p's get_cached_answer call has returned and its SELECT did not fail
AnswerLookupDone(p) ==
    /\ pc[p] = "returned"
    /\ call[p].op = "get_cached_answer"
    /\ ~sqlErr[p]

C12_ExactQuestionMatch ==
    \A p \in Readers :
        AnswerLookupDone(p) =>
            LET mine == CommitsFor(call[p].question, seen[p]) IN
            IF mine = {} THEN outcome[p] = Return(RNone)
            ELSE \E i \in mine :
                    outcome[p] = Return([py |-> "tuple",
                                         answer_text |-> log[i].answer_text,
                                         source_url |-> log[i].source_url])

\* a miss for "q2" while "q1" has a committed answer
C12_Witness ==
    \E p \in Readers :
        /\ AnswerLookupDone(p)
        /\ call[p].question = "q2"
        /\ CommitsFor("q1", seen[p]) # {}
        /\ CommitsFor("q2", seen[p]) = {}
        /\ outcome[p] = Return(RNone)

(***************************************************************************)
(* The round trip of brave_response_json through json.dumps, the           *)
(* search_results table and json.loads, over a wider set of responses:     *)
(* cache_qa_data calls that no statement of fails, followed by             *)
(* get_cached_brave_response.                                              *)
(***************************************************************************)
RNested ==
    PyDict(<< <<PyStr("a"), PyDict(<< <<PyStr("b"), PyList(<<PyStr("x"), PyInt(2)>>)>> >>)>>,
              <<PyStr("c"), PyList(<<>>)>> >>)
RIntKey == PyDict(<< <<PyInt(1), PyStr("x")>> >>)
RTuple == PyDict(<< <<PyStr("k"), PyTuple(<<PyStr("a"), PyStr("b")>>)>> >>)

RoundTripResponses == {R1, R2, RNested, RIntKey, RTuple}
RoundTripCycles == {Cycle(r, <<>>, "A1", "s1") : r \in RoundTripResponses}

NextRoundTrip ==
    \/ InitializeDb
    \/ \E p \in Procs :
        \/ \E q \in Questions, c \in RoundTripCycles : CallCacheQaData(p, q, c)
        \/ ExecInsertQuery(p)
        \/ ExecInsertSearchResult(p)
        \/ ExecInsertAnswer(p)
        \/ Commit(p)
        \/ \E q \in Questions : GetCachedBraveResponse(p, q)
        \/ TakeResult(p)

SpecRoundTrip == Init /\ [][NextRoundTrip]_vars

(***************************************************************************)
(* C13. For every brave_response_json made of dicts with string keys,      *)
(* lists, strings and integers, nested to any depth, a committed           *)
(* cache_qa_data(Q, R, ...) followed by get_cached_brave_response(Q)       *)
(* returns a value equal to R.                                             *)
(***************************************************************************)
\* the values json.loads can produce: what json.dumps writes them as reads
\* back as the same value
RECURSIVE JsonNative(_)
JsonNative(x) ==
    CASE x.t \in {"str", "int"} -> TRUE
      [] x.t = "list" -> \A i \in 1..Len(x.v) : JsonNative(x.v[i])
      [] x.t = "dict" -> \A i \in 1..Len(x.v) :
                            /\ x.v[i][1].t = "str"
                            /\ JsonNative(x.v[i][2])
      [] OTHER -> FALSE

\* p's get_cached_brave_response call has returned after a committed call
\* for its question
ResponseLookupHit(p) ==
    /\ pc[p] = "returned"
    /\ call[p].op = "get_cached_brave_response"
    /\ ~sqlErr[p]
    /\ CommitsFor(call[p].question, seen[p]) # {}

\* the brave_response_json of the last call committed for p's question
\* before p's lookup
LastResponseFor(p) == log[Max(CommitsFor(call[p].question, seen[p]))].response

C13_JsonRoundTrip ==
    \A p \in Readers :
        (ResponseLookupHit(p) /\ JsonNative(LastResponseFor(p))) =>
            outcome[p] = Return(RValue(LastResponseFor(p)))

\* the nested response came back as it was recorded
C13_Witness ==
    \E p \in Readers :
        /\ ResponseLookupHit(p)
        /\ LastResponseFor(p) = RNested
        /\ outcome[p] = Return(RValue(RNested))

\* the claim as the specification states it: every response that was
\* recorded comes back equal
C13_AnyResponseRoundTrip ==
    \A p \in Readers :
        ResponseLookupHit(p) => outcome[p] = Return(RValue(LastResponseFor(p)))

(***************************************************************************)
(* C14. A step of get_cached_answer, get_cached_brave_response or          *)
(* get_cached_web_contents leaves the committed store and every open       *)
(* transaction as they were, whether the lookup hits, misses or fails.     *)
(***************************************************************************)
LookupOps == {"get_cached_answer", "get_cached_brave_response", "get_cached_web_contents"}

\* this step is one of p's lookup: it starts it, runs a SELECT of it or
\* ends it
LookupStep(p) ==
    /\ call'[p].op \in LookupOps
    /\ <<pc[p], idx[p], call[p], outcome[p]>> # <<pc'[p], idx'[p], call'[p], outcome'[p]>>

C14_LookupsLeaveStore ==
    [][\A p \in Procs : LookupStep(p) => (db' = db /\ txn' = txn)]_vars

\* p's lookup has hit over a store that holds rows, while another caller's
\* transaction is open
C14_Witness ==
    \E p \in Readers :
        /\ pc[p] = "returned"
        /\ call[p].op = "get_cached_answer"
        /\ db.answers # {}
        /\ outcome[p] # Return(RNone)
        /\ \E o \in Procs \ {p} : txn[o] # NoTxn

(***************************************************************************)
(* C15. In every committed state each search_results row and each answers  *)
(* row has the id of an existing queries row in its query_id, and no step  *)
(* removes or changes a queries row.                                       *)
(***************************************************************************)
ReferencesHold(d) ==
    /\ \A s \in d.search_results : \E q \in d.queries : q.id = s.query_id
    /\ \A a \in d.answers : \E q \in d.queries : q.id = a.query_id

C15_ReferentialIntegrity ==
    [][/\ ReferencesHold(db)
       /\ ReferencesHold(db')
       /\ db.queries \subseteq db'.queries]_vars

\* one question recorded twice: four rows reference its one queries row
C15_Witness ==
    /\ Len(log) = 2
    /\ Cardinality(db.queries) = 1
    /\ Cardinality(db.search_results) = 2
    /\ Cardinality(db.answers) = 2
    /\ ReferencesHold(db)

(***************************************************************************)
(* C16. The store is append-only: no step removes or changes a row of any  *)
(* of the four tables, and the commit of a cache_qa_data call for a        *)
(* question that already has rows adds exactly one search_results row and  *)
(* exactly one answers row for that question, the earlier ones staying as  *)
(* they are.                                                               *)
(***************************************************************************)
RowsKept ==
    /\ db.queries \subseteq db'.queries
    /\ db.search_results \subseteq db'.search_results
    /\ db.web_contents \subseteq db'.web_contents
    /\ db.answers \subseteq db'.answers

\* this step commits a call for a question that an earlier call recorded
CommitWithHistory ==
    /\ Len(log') = Len(log) + 1
    /\ CommitsFor(log'[Len(log')].question, Len(log)) # {}

OneRowEachAdded ==
    LET last == log'[Len(log')] IN
    /\ Cardinality(db'.search_results \ db.search_results) = 1
    /\ Cardinality(db'.answers \ db.answers) = 1
    /\ SearchResultsOf(db', last.question) \ SearchResultsOf(db, last.question)
           = db'.search_results \ db.search_results
    /\ AnswersOf(db', last.question) \ AnswersOf(db, last.question)
           = db'.answers \ db.answers
    /\ db'.queries = db.queries

C16_AppendOnly ==
    [][RowsKept /\ (CommitWithHistory => OneRowEachAdded)]_vars

\* the second call for one question has committed: its rows stand next to
\* the first call's
C16_Witness ==
    /\ Len(log) = 2
    /\ log[1].question = log[2].question
    /\ \E a, b \in db.answers :
          /\ a.id = log[1].answer_id /\ a.answer_text = log[1].answer_text
          /\ b.id = log[2].answer_id /\ b.answer_text = log[2].answer_text
          /\ a # b
    /\ Cardinality(SearchResultsOf(db, log[1].question)) = 2

(***************************************************************************)
(* C17. A url of web_contents_data that already has a web_contents row,    *)
(* or an empty web_contents_data, does not make cache_qa_data fail: the    *)
(* INSERT OR IGNORE for such a url raises nothing and leaves the row as    *)
(* it is, and the call's commit adds its search_results row, its answers   *)
(* row and a web_contents row for each of its urls that had none.          *)
(***************************************************************************)
\* p's loop is at a pair whose url already has a row, committed or written
\* earlier in p's own transaction
AtPresentUrl(p) ==
    /\ pc[p] = "insert_web_contents"
    /\ idx[p] <= Len(call[p].web_contents_data)
    /\ Len(call[p].web_contents_data[idx[p]]) = 2
    /\ SelectContent(txn[p], call[p].web_contents_data[idx[p]][1]) # {}

\* this step commits a call whose web_contents_data is empty or names a url
\* that had a row before
CommitOverPresentUrl ==
    /\ Len(log') = Len(log) + 1
    /\ LET c == log'[Len(log')].contents IN
          \/ c = <<>>
          \/ \E k \in 1..Len(c) : SelectContent(db, c[k][1]) # {}

NewRowsCommitted ==
    LET last == log'[Len(log')]
        c == last.contents IN
    /\ db.web_contents \subseteq db'.web_contents
    /\ \A k \in 1..Len(c) :
          SelectContent(db, c[k][1]) = {} =>
              \E r \in db'.web_contents \ db.web_contents :
                  /\ r.url = c[k][1]
                  /\ r.content = c[Min(PairsFor(c, c[k][1]))][2]
    /\ \E s \in db'.search_results \ db.search_results :
          /\ s.id = last.search_result_id
          /\ s.query_id = last.query_id
          /\ s.brave_response_json = Dumps(last.response)
    /\ \E a \in db'.answers \ db.answers :
          /\ a.id = last.answer_id
          /\ a.query_id = last.query_id
          /\ a.answer_text = last.answer_text
          /\ a.source_url = last.source_url

C17_PresentUrlIsSkipped ==
    [][/\ \A p \in Procs : AtPresentUrl(p) =>
              /\ ENABLED ExecInsertWebContent(p)
              /\ ExecInsertWebContent(p) =>
                     txn'[p].web_contents = txn[p].web_contents
       /\ CommitOverPresentUrl => NewRowsCommitted]_vars

\* the second committed call named "u1", which had a row, and "u2", which
\* had none: "u1" kept its content, "u2" got its row
C17_Witness ==
    /\ Len(log) = 2
    /\ log[1].urls = {"u1"}
    /\ log[2].urls = {"u2"}
    /\ PairsFor(log[2].contents, "u1") # {}
    /\ \E r \in db.web_contents : r.url = "u1" /\ r.content = "old"
    /\ \E r \in db.web_contents : r.url = "u2" /\ r.content = "old"
    /\ Cardinality(db.answers) = 2

(***************************************************************************)
(* C18. For a question with several committed cache_qa_data calls, the row *)
(* get_cached_answer selects and the row get_cached_brave_response selects  *)
(* were both written by the same call, the last one committed for the      *)
(* question.                                                               *)
(***************************************************************************)
C18_SameCallBothLookups ==
    \A q \in Questions :
        CommitsFor(q, Len(log)) # {} =>
            LET last == log[Max(CommitsFor(q, Len(log)))] IN
            /\ \A s \in SelectLatestSearchResult(db, q) : s.id = last.search_result_id
            /\ \A a \in SelectLatestAnswer(db, q) : a.id = last.answer_id

(***************************************************************************)
(* C19. In every committed state each queries row has as many              *)
(* search_results rows as answers rows, and that number is the number of   *)
(* cache_qa_data calls committed for its question, which is at least one.  *)
(***************************************************************************)
C19_OneRowPairPerCommit ==
    \A q \in db.queries :
        LET n == Cardinality(CommitsFor(q.question, Len(log))) IN
        /\ n >= 1
        /\ Cardinality({s \in db.search_results : s.query_id = q.id}) = n
        /\ Cardinality({a \in db.answers : a.query_id = q.id}) = n

\* one question recorded twice, the second call back at its caller: two
\* rows of each kind
C19_Witness ==
    /\ Len(log) = 2
    /\ log[1].question = log[2].question
    /\ \E q \in db.queries :
          /\ q.question = log[1].question
          /\ Cardinality({s \in db.search_results : s.query_id = q.id}) = 2
          /\ Cardinality({a \in db.answers : a.query_id = q.id}) = 2
    /\ \E p \in Procs : pc[p] = "returned" /\ InCacheQaData(p)

(***************************************************************************)
(* C20. A cache_qa_data call that ends with an exception which is no       *)
(* sqlite3.Error (TypeError from json.dumps after the queries INSERT,      *)
(* ValueError from a web_contents_data entry that is no pair) commits      *)
(* nothing: the except branch with its rollback is not taken, the finally  *)
(* clause closes the connection, and the rows the call had written are     *)
(* discarded with the open transaction.                                    *)
(***************************************************************************)
\* this step ends p's cache_qa_data call with an exception at the caller
RaisesToCaller(p) ==
    /\ InCacheQaData(p)
    /\ outcome[p] = Pending
    /\ outcome'[p].kind = "raise"

C20_RaiseCommitsNothing ==
    [][\A p \in Procs :
          RaisesToCaller(p) =>
              /\ txn[p] # NoTxn
              /\ txn[p].queries # {}
              /\ db' = db
              /\ txn'[p] = NoTxn
              /\ ~sqlErr'[p]
              /\ log' = log]_vars

\* the call wrote a queries, a search_results and a web_contents row, then
\* met the 1-tuple: the store is as empty as before
C20_Witness ==
    \E p \in Procs :
        /\ InCacheQaData(p)
        /\ pc[p] = "returned"
        /\ outcome[p] = Raise("ValueError")
        /\ ~sqlErr[p]
        /\ txn[p] = NoTxn
        /\ db = EmptyDb

====
